---- MODULE Spec2Model ----
(***************************************************************************)
(* Model of scripts/fetch_tarkov_data.py: the fetch / decode / validate /  *)
(* retry orchestration of the two datasets (items, hazards) and the final  *)
(* persistence of both payloads.                                           *)
(***************************************************************************)
EXTENDS Integers, Sequences, FiniteSets, TLC

\* ------------------------------------------------------------------------
\* Program constants and bounds
\* ------------------------------------------------------------------------
MAX_ATTEMPTS_PER_DATASET == 3

\* number of consecutive runs of the script over the same output files
MaxRuns == 2

\* longest list under data.items / data.maps given to a validator alone
MaxLen == 2

\* ------------------------------------------------------------------------
\* JSON values: a tag t and a content v.  A dict keeps its keys in document
\* order, as Python's dict does: v is a sequence of <<key, value>> pairs.
\* ------------------------------------------------------------------------
Null == [t |-> "null", v |-> ""]
Str(s) == [t |-> "str", v |-> s]
List(l) == [t |-> "list", v |-> l]
Dict(pairs) == [t |-> "dict", v |-> pairs]

\* isinstance(x, dict) / isinstance(x, list)
IsDict(x) == x.t = "dict"
IsList(x) == x.t = "list"

\* key in d
HasKey(d, k) == \E i \in 1..Len(d.v) : d.v[i][1] = k

\* d.get(k): the value under k, None when absent
Get(d, k) ==
    IF HasKey(d, k)
    THEN d.v[CHOOSE i \in 1..Len(d.v) : d.v[i][1] = k][2]
    ELSE Null

\* ------------------------------------------------------------------------
\* json.dumps(payload, indent=2), as a sequence of text tokens
\* ------------------------------------------------------------------------
RECURSIVE Indent(_)
Indent(level) == IF level = 0 THEN <<>> ELSE <<"  ">> \o Indent(level - 1)

NewLine(level) == <<"\n">> \o Indent(level)

RECURSIVE dumps(_, _)
RECURSIVE dumps_list(_, _, _)
RECURSIVE dumps_dict(_, _, _)
dumps_list(l, i, level) ==
    IF i > Len(l) THEN <<>>
    ELSE (IF i > 1 THEN <<",">> ELSE <<>>)
         \o NewLine(level + 1) \o dumps(l[i], level + 1)
         \o dumps_list(l, i + 1, level)

dumps_dict(p, i, level) ==
    IF i > Len(p) THEN <<>>
    ELSE (IF i > 1 THEN <<",">> ELSE <<>>)
         \o NewLine(level + 1) \o <<"\"", p[i][1], "\"", ": ">>
         \o dumps(p[i][2], level + 1)
         \o dumps_dict(p, i + 1, level)

dumps(x, level) ==
    CASE x.t = "null" -> <<"null">>
      [] x.t = "str" -> <<"\"", x.v, "\"">>
      [] x.t = "list" ->
            IF Len(x.v) = 0 THEN <<"[]">>
            ELSE <<"[">> \o dumps_list(x.v, 1, level) \o NewLine(level) \o <<"]">>
      [] x.t = "dict" ->
            IF Len(x.v) = 0 THEN <<"{}">>
            ELSE <<"{">> \o dumps_dict(x.v, 1, level) \o NewLine(level) \o <<"}">>

\* ------------------------------------------------------------------------
\* FetchError and the result of a call that may raise it
\* ------------------------------------------------------------------------
FetchError(msg) == [msg |-> msg, status |-> 0]
HttpError(status_code) == [msg |-> "HTTP", status |-> status_code]
NoError == [msg |-> "None", status |-> 0]

Return(x) == [ok |-> TRUE, val |-> x]
Raise(err) == [ok |-> FALSE, val |-> err]

\* errors are tolerated when the response also carries data
post_graphql_partial(response) ==
    IF response.net = "error"
    THEN Raise(FetchError("Network timeout/error"))
    ELSE IF response.status_code # 200
    THEN Raise(HttpError(response.status_code))
    ELSE IF ~response.body.valid
    THEN Raise(FetchError("Invalid JSON response"))
    ELSE LET parsed == response.body.doc IN
         IF ~IsDict(parsed)
         THEN Raise(FetchError("Response root is not a JSON object"))
         ELSE LET errors == Get(parsed, "errors") IN
              IF IsList(errors) /\ Len(errors.v) > 0 /\ ~HasKey(parsed, "data")
              THEN Raise(FetchError("GraphQL returned errors"))
              ELSE IF ~HasKey(parsed, "data") \/ ~IsDict(Get(parsed, "data"))
              THEN Raise(FetchError("GraphQL response missing valid 'data' object"))
              ELSE Return(parsed)

\* the "data" check made before the "errors" check
post_graphql_reordered(response) ==
    IF response.net = "error"
    THEN Raise(FetchError("Network timeout/error"))
    ELSE IF response.status_code # 200
    THEN Raise(HttpError(response.status_code))
    ELSE IF ~response.body.valid
    THEN Raise(FetchError("Invalid JSON response"))
    ELSE LET parsed == response.body.doc IN
         IF ~IsDict(parsed)
         THEN Raise(FetchError("Response root is not a JSON object"))
         ELSE IF ~HasKey(parsed, "data") \/ ~IsDict(Get(parsed, "data"))
         THEN Raise(FetchError("GraphQL response missing valid 'data' object"))
         ELSE LET errors == Get(parsed, "errors") IN
              IF IsList(errors) /\ Len(errors.v) > 0
              THEN Raise(FetchError("GraphQL returned errors"))
              ELSE Return(parsed)

\* any list under "errors" is rejected, the empty one included
post_graphql_strict(response) ==
    IF response.net = "error"
    THEN Raise(FetchError("Network timeout/error"))
    ELSE IF response.status_code # 200
    THEN Raise(HttpError(response.status_code))
    ELSE IF ~response.body.valid
    THEN Raise(FetchError("Invalid JSON response"))
    ELSE LET parsed == response.body.doc IN
         IF ~IsDict(parsed)
         THEN Raise(FetchError("Response root is not a JSON object"))
         ELSE LET errors == Get(parsed, "errors") IN
              IF IsList(errors)
              THEN Raise(FetchError("GraphQL returned errors"))
              ELSE IF ~HasKey(parsed, "data") \/ ~IsDict(Get(parsed, "data"))
              THEN Raise(FetchError("GraphQL response missing valid 'data' object"))
              ELSE Return(parsed)

\* ------------------------------------------------------------------------
\* post_graphql: one request, then the decoding of its response
\* ------------------------------------------------------------------------
post_graphql(response) ==
    IF response.net = "error"
    THEN Raise(FetchError("Network timeout/error"))
    ELSE IF response.status_code # 200
    THEN Raise(HttpError(response.status_code))
    ELSE IF ~response.body.valid
    THEN Raise(FetchError("Invalid JSON response"))
    ELSE LET parsed == response.body.doc IN
         IF ~IsDict(parsed)
         THEN Raise(FetchError("Response root is not a JSON object"))
         ELSE LET errors == Get(parsed, "errors") IN
              IF IsList(errors) /\ Len(errors.v) > 0
              THEN Raise(FetchError("GraphQL returned errors"))
              ELSE IF ~HasKey(parsed, "data") \/ ~IsDict(Get(parsed, "data"))
              THEN Raise(FetchError("GraphQL response missing valid 'data' object"))
              ELSE Return(parsed)

\* ------------------------------------------------------------------------
\* The two validators
\* ------------------------------------------------------------------------
\* every element of data.items is checked, not the first alone
validate_items_payload_every(payload) ==
    LET data == Get(payload, "data") IN
    IF ~IsDict(data)
    THEN Raise(FetchError("Items payload has invalid 'data' section"))
    ELSE LET items == Get(data, "items") IN
         IF ~IsList(items) \/ Len(items.v) = 0
         THEN Raise(FetchError("Items payload is missing a non-empty data.items array"))
         ELSE IF \E i \in 1..Len(items.v) :
                    \/ ~IsDict(items.v[i])
                    \/ ~HasKey(items.v[i], "id")
                    \/ ~HasKey(items.v[i], "shortName")
              THEN Raise(FetchError("Items payload is missing expected item fields"))
              ELSE Return(Null)

validate_items_payload(payload) ==
    LET data == Get(payload, "data") IN
    IF ~IsDict(data)
    THEN Raise(FetchError("Items payload has invalid 'data' section"))
    ELSE LET items == Get(data, "items") IN
         IF ~IsList(items) \/ Len(items.v) = 0
         THEN Raise(FetchError("Items payload is missing a non-empty data.items array"))
         ELSE LET first == items.v[1] IN
              IF ~IsDict(first) \/ ~HasKey(first, "id") \/ ~HasKey(first, "shortName")
              THEN Raise(FetchError("Items payload is missing expected item fields"))
              ELSE Return(Null)

\* the first map must carry at least one hazard
validate_hazards_payload_nonempty(payload) ==
    LET data == Get(payload, "data") IN
    IF ~IsDict(data)
    THEN Raise(FetchError("Hazards payload has invalid 'data' section"))
    ELSE LET maps_data == Get(data, "maps") IN
         IF ~IsList(maps_data) \/ Len(maps_data.v) = 0
         THEN Raise(FetchError("Hazards payload is missing a non-empty data.maps array"))
         ELSE LET first == maps_data.v[1] IN
              IF \/ ~IsDict(first) \/ ~HasKey(first, "nameId") \/ ~HasKey(first, "hazards")
                 \/ ~IsList(Get(first, "hazards")) \/ Len(Get(first, "hazards").v) = 0
              THEN Raise(FetchError("Hazards payload is missing expected map fields"))
              ELSE Return(Null)

validate_hazards_payload(payload) ==
    LET data == Get(payload, "data") IN
    IF ~IsDict(data)
    THEN Raise(FetchError("Hazards payload has invalid 'data' section"))
    ELSE LET maps_data == Get(data, "maps") IN
         IF ~IsList(maps_data) \/ Len(maps_data.v) = 0
         THEN Raise(FetchError("Hazards payload is missing a non-empty data.maps array"))
         ELSE LET first == maps_data.v[1] IN
              IF ~IsDict(first) \/ ~HasKey(first, "nameId") \/ ~HasKey(first, "hazards")
              THEN Raise(FetchError("Hazards payload is missing expected map fields"))
              ELSE Return(Null)

\* ------------------------------------------------------------------------
\* The datasets, and the validator main passes to fetch_dataset for each
\* ------------------------------------------------------------------------
Datasets == {"items", "hazards"}

Validator(d, payload) ==
    IF d = "items" THEN validate_items_payload(payload)
    ELSE validate_hazards_payload(payload)

\* ------------------------------------------------------------------------
\* Responses the endpoint may give to one request
\* ------------------------------------------------------------------------
ItemGood == Dict(<< <<"id", Str("1")>>, <<"shortName", Str("x")>> >>)
ItemNoShort == Dict(<< <<"id", Str("1")>> >>)
MapGood == Dict(<< <<"nameId", Str("m1")>>, <<"hazards", List(<<>>)>> >>)
MapNoHazards == Dict(<< <<"nameId", Str("m1")>> >>)

Elems == {Str("x"), ItemGood, ItemNoShort, MapGood, MapNoHazards}

\* values found under data.items / data.maps
ArrayVals == {Str("x"), List(<<>>)} \cup {List(<<e>>) : e \in Elems}

\* values found under the top-level "data" key
DataVals ==
    {Null, List(<<>>), Dict(<<>>)}
    \cup {Dict(<< <<k, a>> >>) : k \in {"items", "maps"}, a \in ArrayVals}
    \cup {Dict(<< <<"items", List(<<ItemGood, Str("x")>>)>>,
                  <<"maps", List(<<MapGood>>)>> >>)}

\* values found under the top-level "errors" key
ErrorsVals ==
    {Null, Str("x"), List(<<>>), Dict(<<>>),
     List(<< Dict(<< <<"message", Str("boom")>> >>) >>)}

\* decoded documents: roots that are no object, and objects with or without
\* the keys "errors" and "data", in either order
Docs ==
    {Null, Str("x"), List(<<>>), Dict(<<>>)}
    \cup {Dict(<< <<"data", d>> >>) : d \in DataVals}
    \cup {Dict(<< <<"errors", e>> >>) : e \in ErrorsVals}
    \cup {Dict(<< <<"errors", e>>, <<"data", d>> >>) : e \in ErrorsVals, d \in DataVals}
    \cup {Dict(<< <<"data", d>>, <<"errors", e>> >>) : e \in ErrorsVals, d \in DataVals}

Bodies == {[valid |-> FALSE, doc |-> Null]} \cup {[valid |-> TRUE, doc |-> x] : x \in Docs}

StatusCodes == {200, 404, 500}

NetworkError == [net |-> "error", status_code |-> 0, body |-> [valid |-> FALSE, doc |-> Null]]

Responses ==
    {NetworkError}
    \cup {[net |-> "ok", status_code |-> s, body |-> b] : s \in StatusCodes, b \in Bodies}

\* the responses drawn during a run: one for every way a response can fail
\* in post_graphql or in a validator, and the ones either validator accepts
BothData ==
    Dict(<< <<"items", List(<<ItemGood, Str("x")>>)>>, <<"maps", List(<<MapGood>>)>> >>)

\* the values under "data" drawn during a run
RunDataVals ==
    {Null, Dict(<<>>), BothData}
    \cup {Dict(<< <<"items", a>> >>) : a \in {List(<<>>), List(<<ItemNoShort>>), List(<<ItemGood>>)}}
    \cup {Dict(<< <<"maps", a>> >>) : a \in {List(<<>>), List(<<MapNoHazards>>), List(<<MapGood>>)}}

Ok200(doc) == [net |-> "ok", status_code |-> 200, body |-> [valid |-> TRUE, doc |-> doc]]

RunResponses ==
    {NetworkError,
     [net |-> "ok", status_code |-> 200, body |-> [valid |-> FALSE, doc |-> Null]],
     [net |-> "ok", status_code |-> 500, body |-> [valid |-> FALSE, doc |-> Null]],
     [net |-> "ok", status_code |-> 404,
      body |-> [valid |-> TRUE, doc |-> Dict(<< <<"data", BothData>> >>)]],
     Ok200(List(<<>>)),
     Ok200(Dict(<< <<"errors", List(<< Dict(<< <<"message", Str("boom")>> >>) >>)>>,
                   <<"data", BothData>> >>)),
     Ok200(Dict(<< <<"data", BothData>>, <<"errors", List(<<>>)>> >>))}
    \cup {Ok200(Dict(<< <<"data", d>> >>)) : d \in RunDataVals}

\* ------------------------------------------------------------------------
\* main: its statements in program order.  A fetch assigns the result of
\* fetch_dataset(ds, ...) to the local var; a write is write_json(file of ds,
\* var).
\* ------------------------------------------------------------------------
\* the hazards dataset is fetched before the items dataset
MainBody_hazards_first ==
    << [op |-> "fetch", ds |-> "hazards", var |-> "hazards"],
       [op |-> "fetch", ds |-> "items", var |-> "items"],
       [op |-> "write", ds |-> "items", var |-> "items"],
       [op |-> "write", ds |-> "hazards", var |-> "hazards"] >>

\* the hazards file is written before the items file
MainBody_writes_reversed ==
    << [op |-> "fetch", ds |-> "items", var |-> "items"],
       [op |-> "fetch", ds |-> "hazards", var |-> "hazards"],
       [op |-> "write", ds |-> "hazards", var |-> "hazards"],
       [op |-> "write", ds |-> "items", var |-> "items"] >>

\* the items file is written from hazards_payload
MainBody_swapped ==
    << [op |-> "fetch", ds |-> "items", var |-> "items"],
       [op |-> "fetch", ds |-> "hazards", var |-> "hazards"],
       [op |-> "write", ds |-> "items", var |-> "hazards"],
       [op |-> "write", ds |-> "hazards", var |-> "hazards"] >>

\* each payload is written as soon as it is fetched
MainBody_eager ==
    << [op |-> "fetch", ds |-> "items", var |-> "items"],
       [op |-> "write", ds |-> "items", var |-> "items"],
       [op |-> "fetch", ds |-> "hazards", var |-> "hazards"],
       [op |-> "write", ds |-> "hazards", var |-> "hazards"] >>

MainBody ==
    << [op |-> "fetch", ds |-> "items", var |-> "items"],
       [op |-> "fetch", ds |-> "hazards", var |-> "hazards"],
       [op |-> "write", ds |-> "items", var |-> "items"],
       [op |-> "write", ds |-> "hazards", var |-> "hazards"] >>

\* main after the statement at position i completed: the next statement, or
\* return 0 after the last one
AfterStatement(i) ==
    IF i = Len(MainBody)
    THEN [pc |-> "done", ip |-> i, result |-> "return0"]
    ELSE [pc |-> IF MainBody[i + 1].op = "fetch" THEN "call" ELSE "write",
          ip |-> i + 1, result |-> "running"]

\* the except branch returns 0
ExceptFetchError_zero(i) == [pc |-> "done", ip |-> i, result |-> "return0"]

\* the error is reported and main goes on with its next statement
ExceptFetchError_continue(i) ==
    [pc |-> IF MainBody[i + 1].op = "fetch" THEN "call" ELSE "write",
     ip |-> i + 1, result |-> "running"]

\* main after fetch_dataset raised FetchError at position i: return 1
ExceptFetchError(i) == [pc |-> "done", ip |-> i, result |-> "return1"]

\* raise SystemExit(main()): the exit status of the process, 1 when an
\* exception leaves main uncaught
ExitStatus(res) ==
    CASE res = "return0" -> 0
      [] res = "return1" -> 1
      [] res = "uncaught" -> 1

\* ------------------------------------------------------------------------
\* State
\* ------------------------------------------------------------------------
VARIABLES
    pc,           \* where the program stands: "call", "attempting", "write",
                  \* "done" (and "decode", "decoded" for post_graphql alone,
                  \* "validate", "validated" for a validator alone)
    ip,           \* main: position of the current statement in MainBody
    attempt,      \* fetch_dataset: the loop variable
    last_error,   \* fetch_dataset: last_error
    response,     \* post_graphql: the response of the latest request
    decoded,      \* post_graphql: what the latest call returned or raised
    payloads,     \* main: items_payload and hazards_payload (Null: unassigned)
    files,        \* ITEMS_OUTFILE and HAZARDS_OUTFILE on disk
    result,       \* how main ended: "running", "return0", "return1", "uncaught"
    raised,       \* the FetchError main caught
    run,          \* number of the current run of the script
    requests,     \* history: requests sent per dataset in this run
    sleeps,       \* history: time.sleep durations per dataset in this run
    fails,        \* history: failed attempts per dataset in this run
    fstate,       \* history: "NotStarted", "Attempting", "Succeeded", "Failed"
    accepted,     \* history: the response of the successful attempt, per dataset
    written,      \* history: files whose write completed in this run
    pre_files,    \* history: the files as they were when this run started
    superseded,   \* history: a failed attempt of the fetch replaced a different error
    vpayload,     \* a validator alone: its argument
    verdict       \* a validator alone: what it returned or raised

vars == <<pc, ip, attempt, last_error, response, decoded, payloads, files,
          result, raised, run, requests, sleeps, fails, fstate, accepted,
          written, pre_files, superseded, vpayload, verdict>>

\* the dataset of the current statement of main
ds == MainBody[ip].ds

\* f"{name} failed after {MAX_ATTEMPTS_PER_DATASET} attempts: {last_error}"
AggregatedError(name, err) ==
    [msg |-> "failed after attempts", name |-> name,
     attempts |-> MAX_ATTEMPTS_PER_DATASET, last |-> err]

NoAggregated == AggregatedError("", NoError)
NoFile == [exists |-> FALSE, text |-> <<>>]
NoResult == Raise(NoError)
NoResponse == [net |-> "none", status_code |-> 0, body |-> [valid |-> FALSE, doc |-> Null]]

\* the locals and the history of a run that has not started
FreshRun ==
    /\ attempt = 0
    /\ last_error = NoError
    /\ response = NoResponse
    /\ decoded = NoResult
    /\ payloads = [d \in Datasets |-> Null]
    /\ result = "running"
    /\ raised = NoAggregated
    /\ requests = [d \in Datasets |-> 0]
    /\ sleeps = [d \in Datasets |-> <<>>]
    /\ fails = [d \in Datasets |-> 0]
    /\ fstate = [d \in Datasets |-> "NotStarted"]
    /\ accepted = [d \in Datasets |-> NoResponse]
    /\ superseded = FALSE
    /\ written = {}

Init ==
    /\ pc = "call"
    /\ ip = 1
    /\ run = 1
    /\ files = [d \in Datasets |-> NoFile]
    /\ pre_files = [d \in Datasets |-> NoFile]
    /\ FreshRun
    /\ vpayload = Null
    /\ verdict = NoResult

\* ------------------------------------------------------------------------
\* fetch_dataset
\* ------------------------------------------------------------------------
\* range(1, MAX_ATTEMPTS_PER_DATASET + 1)
AttemptRange == 1..MAX_ATTEMPTS_PER_DATASET

\* off by one: range(1, MAX_ATTEMPTS_PER_DATASET + 2)
LoopHasNext_extra(n) == n + 1 \in 1..(MAX_ATTEMPTS_PER_DATASET + 1)

\* the for loop has another iteration after this one
LoopHasNext(n) == n + 1 \in AttemptRange

\* if attempt < MAX_ATTEMPTS_PER_DATASET: time.sleep(attempt)
ShouldSleep(n) == n < MAX_ATTEMPTS_PER_DATASET

\* a constant backoff: time.sleep(1)
SleepSeconds_constant(n) == 1

SleepSeconds(n) == n

\* the sleeps of the dataset d after its attempt n failed
SleepsAfter(d, n) ==
    IF ShouldSleep(n)
    THEN [sleeps EXCEPT ![d] = Append(@, SleepSeconds(n))]
    ELSE sleeps

\* the try block: post_graphql(query), validator(payload), return payload
TryAttempt(d, resp) ==
    LET p == post_graphql(resp) IN
    IF ~p.ok THEN p
    ELSE LET v == Validator(d, p.val) IN
         IF ~v.ok THEN v ELSE Return(p.val)

\* the attempt counter and last_error are shared by the calls of fetch_dataset
CallFetch_shared ==
    /\ pc = "call"
    /\ pc' = "attempting"
    /\ last_error' = last_error
    /\ attempt' = IF attempt = 0 THEN 1 ELSE attempt
    /\ fstate' = [fstate EXCEPT ![ds] = "Attempting"]
    /\ superseded' = FALSE
    /\ UNCHANGED <<ip, response, decoded, payloads, files, result, raised, run,
                   requests, sleeps, fails, accepted, written, pre_files, vpayload, verdict>>

\* main calls fetch_dataset(name, query, validator)
CallFetch ==
    /\ pc = "call"
    /\ pc' = "attempting"
    /\ last_error' = NoError
    /\ attempt' = 1
    /\ fstate' = [fstate EXCEPT ![ds] = "Attempting"]
    /\ superseded' = FALSE
    /\ UNCHANGED <<ip, response, decoded, payloads, files, result, raised, run,
                   requests, sleeps, fails, accepted, written, pre_files, vpayload, verdict>>

\* the payload is not returned from the loop: the next iteration follows
AttemptSucceeds_continues ==
    /\ pc = "attempting"
    /\ \E resp \in RunResponses :
         LET r == TryAttempt(ds, resp) IN
         /\ r.ok
         /\ response' = resp
         /\ decoded' = post_graphql(resp)
         /\ payloads' = [payloads EXCEPT ![MainBody[ip].var] = r.val]
         /\ accepted' = [accepted EXCEPT ![ds] = resp]
    /\ requests' = [requests EXCEPT ![ds] = @ + 1]
    /\ fstate' = [fstate EXCEPT ![ds] = "Succeeded"]
    /\ attempt' = attempt + 1
    /\ superseded' = FALSE
    /\ UNCHANGED <<pc, ip, result, last_error, files, raised, run,
                   sleeps, fails, written, pre_files, vpayload, verdict>>

\* an attempt whose response decodes and validates: fetch_dataset returns the
\* payload, main assigns it and goes on to its next statement
AttemptSucceeds ==
    /\ pc = "attempting"
    /\ \E resp \in RunResponses :
         LET r == TryAttempt(ds, resp) IN
         /\ r.ok
         /\ response' = resp
         /\ decoded' = post_graphql(resp)
         /\ payloads' = [payloads EXCEPT ![MainBody[ip].var] = r.val]
         /\ accepted' = [accepted EXCEPT ![ds] = resp]
    /\ requests' = [requests EXCEPT ![ds] = @ + 1]
    /\ fstate' = [fstate EXCEPT ![ds] = "Succeeded"]
    /\ pc' = AfterStatement(ip).pc
    /\ ip' = AfterStatement(ip).ip
    /\ result' = AfterStatement(ip).result
    /\ superseded' = FALSE
    /\ UNCHANGED <<attempt, last_error, files, raised, run,
                   sleeps, fails, written, pre_files, vpayload, verdict>>

\* the loop does not advance: the same attempt is made again
AttemptFails_same_attempt ==
    /\ pc = "attempting"
    /\ LoopHasNext(attempt)
    /\ \E resp \in RunResponses :
         LET r == TryAttempt(ds, resp) IN
         /\ ~r.ok
         /\ response' = resp
         /\ decoded' = post_graphql(resp)
         /\ last_error' = r.val
    /\ requests' = [requests EXCEPT ![ds] = @ + 1]
    /\ fails' = [fails EXCEPT ![ds] = @ + 1]
    /\ sleeps' = SleepsAfter(ds, attempt)
    /\ attempt' = attempt
    /\ superseded' = (superseded \/ (last_error # NoError /\ last_error # last_error'))
    /\ UNCHANGED <<pc, ip, payloads, files, result, raised, run, fstate,
                   accepted, written, pre_files, vpayload, verdict>>

\* an attempt that raises FetchError with iterations left: sleep, next attempt
AttemptFails ==
    /\ pc = "attempting"
    /\ LoopHasNext(attempt)
    /\ \E resp \in RunResponses :
         LET r == TryAttempt(ds, resp) IN
         /\ ~r.ok
         /\ response' = resp
         /\ decoded' = post_graphql(resp)
         /\ last_error' = r.val
    /\ requests' = [requests EXCEPT ![ds] = @ + 1]
    /\ fails' = [fails EXCEPT ![ds] = @ + 1]
    /\ sleeps' = SleepsAfter(ds, attempt)
    /\ attempt' = attempt + 1
    /\ superseded' = (superseded \/ (last_error # NoError /\ last_error # last_error'))
    /\ UNCHANGED <<pc, ip, payloads, files, result, raised, run, fstate,
                   accepted, written, pre_files, vpayload, verdict>>

\* last_error keeps the first error: last_error = last_error or err
AttemptExhausts_firsterror ==
    /\ pc = "attempting"
    /\ ~LoopHasNext(attempt)
    /\ \E resp \in RunResponses :
         LET r == TryAttempt(ds, resp) IN
         /\ ~r.ok
         /\ response' = resp
         /\ decoded' = post_graphql(resp)
         /\ last_error' = IF last_error = NoError THEN r.val ELSE last_error
         /\ raised' = AggregatedError(ds, last_error')
    /\ requests' = [requests EXCEPT ![ds] = @ + 1]
    /\ fails' = [fails EXCEPT ![ds] = @ + 1]
    /\ sleeps' = SleepsAfter(ds, attempt)
    /\ fstate' = [fstate EXCEPT ![ds] = "Failed"]
    /\ pc' = ExceptFetchError(ip).pc
    /\ ip' = ExceptFetchError(ip).ip
    /\ result' = ExceptFetchError(ip).result
    /\ superseded' = superseded
    /\ UNCHANGED <<attempt, payloads, files, run, accepted, written, pre_files, vpayload, verdict>>

\* a 4xx status is fatal at once, whatever the attempt
AttemptExhausts_fastfail ==
    /\ pc = "attempting"
    /\ \E resp \in RunResponses :
         LET r == TryAttempt(ds, resp) IN
         /\ ~r.ok
         /\ ~LoopHasNext(attempt) \/ r.val.status \in 400..499
         /\ response' = resp
         /\ decoded' = post_graphql(resp)
         /\ last_error' = r.val
         /\ raised' = AggregatedError(ds, r.val)
    /\ requests' = [requests EXCEPT ![ds] = @ + 1]
    /\ fails' = [fails EXCEPT ![ds] = @ + 1]
    /\ sleeps' = SleepsAfter(ds, attempt)
    /\ fstate' = [fstate EXCEPT ![ds] = "Failed"]
    /\ pc' = ExceptFetchError(ip).pc
    /\ ip' = ExceptFetchError(ip).ip
    /\ result' = ExceptFetchError(ip).result
    /\ superseded' = (superseded \/ (last_error # NoError /\ last_error # last_error'))
    /\ UNCHANGED <<attempt, payloads, files, run, accepted, written, pre_files, vpayload, verdict>>

\* an attempt that raises FetchError in the last iteration: fetch_dataset
\* raises the aggregated error, main catches it and returns 1
AttemptExhausts ==
    /\ pc = "attempting"
    /\ ~LoopHasNext(attempt)
    /\ \E resp \in RunResponses :
         LET r == TryAttempt(ds, resp) IN
         /\ ~r.ok
         /\ response' = resp
         /\ decoded' = post_graphql(resp)
         /\ last_error' = r.val
         /\ raised' = AggregatedError(ds, r.val)
    /\ requests' = [requests EXCEPT ![ds] = @ + 1]
    /\ fails' = [fails EXCEPT ![ds] = @ + 1]
    /\ sleeps' = SleepsAfter(ds, attempt)
    /\ fstate' = [fstate EXCEPT ![ds] = "Failed"]
    /\ pc' = ExceptFetchError(ip).pc
    /\ ip' = ExceptFetchError(ip).ip
    /\ result' = ExceptFetchError(ip).result
    /\ superseded' = (superseded \/ (last_error # NoError /\ last_error # last_error'))
    /\ UNCHANGED <<attempt, payloads, files, run, accepted, written, pre_files, vpayload, verdict>>

\* ------------------------------------------------------------------------
\* write_json and the end of main
\* ------------------------------------------------------------------------
\* the text is written without the trailing newline
FileText_nonewline(payload) == dumps(payload, 0)

\* serialized + "\n"
FileText(payload) == dumps(payload, 0) \o <<"\n">>

\* what a write_text that raises OSError may leave of the text: nothing, or
\* all of it but the end
PartialTexts(text) == {<<>>, SubSeq(text, 1, Len(text) - 1)}

\* write_json(path, payload) returns
WriteSucceeds ==
    /\ pc = "write"
    /\ files' = [files EXCEPT ![ds] =
                    [exists |-> TRUE, text |-> FileText(payloads[MainBody[ip].var])]]
    /\ written' = written \cup {ds}
    /\ pc' = AfterStatement(ip).pc
    /\ ip' = AfterStatement(ip).ip
    /\ result' = AfterStatement(ip).result
    /\ UNCHANGED <<attempt, last_error, response, decoded, payloads, raised, run,
                   requests, sleeps, fails, fstate, accepted, pre_files, superseded,
                   vpayload, verdict>>

\* main catches the OSError like a FetchError and returns 1
WriteFails_caught ==
    /\ pc = "write"
    /\ \/ files' = files
       \/ \E t \in PartialTexts(FileText(payloads[MainBody[ip].var])) :
            files' = [files EXCEPT ![ds] = [exists |-> TRUE, text |-> t]]
    /\ pc' = "done"
    /\ result' = "return1"
    /\ UNCHANGED <<ip, attempt, last_error, response, decoded, payloads, raised,
                   run, requests, sleeps, fails, fstate, accepted, written,
                   pre_files, superseded,
                   vpayload, verdict>>

\* write_json(path, payload) raises OSError, which main does not catch: the
\* file could not be opened, or was opened (and truncated) and not completed
WriteFails ==
    /\ pc = "write"
    /\ \/ files' = files
       \/ \E t \in PartialTexts(FileText(payloads[MainBody[ip].var])) :
            files' = [files EXCEPT ![ds] = [exists |-> TRUE, text |-> t]]
    /\ pc' = "done"
    /\ result' = "uncaught"
    /\ UNCHANGED <<ip, attempt, last_error, response, decoded, payloads, raised,
                   run, requests, sleeps, fails, fstate, accepted, written,
                   pre_files, superseded,
                   vpayload, verdict>>

\* the script is run again over the files the previous run left
NewRun ==
    /\ pc = "done"
    /\ run < MaxRuns
    /\ run' = run + 1
    /\ pc' = "call"
    /\ ip' = 1
    /\ pre_files' = files
    /\ attempt' = 0
    /\ last_error' = NoError
    /\ response' = NoResponse
    /\ decoded' = NoResult
    /\ payloads' = [d \in Datasets |-> Null]
    /\ result' = "running"
    /\ raised' = NoAggregated
    /\ requests' = [d \in Datasets |-> 0]
    /\ sleeps' = [d \in Datasets |-> <<>>]
    /\ fails' = [d \in Datasets |-> 0]
    /\ fstate' = [d \in Datasets |-> "NotStarted"]
    /\ accepted' = [d \in Datasets |-> NoResponse]
    /\ superseded' = FALSE
    /\ written' = {}
    /\ UNCHANGED <<files, vpayload, verdict>>

Next ==
    \/ CallFetch
    \/ AttemptSucceeds
    \/ AttemptFails
    \/ AttemptExhausts
    \/ WriteSucceeds
    \/ WriteFails
    \/ NewRun

Spec == Init /\ [][Next]_vars

\* ------------------------------------------------------------------------
\* One run of the script.  Every request returns within TIMEOUT_SECONDS or
\* raises, every sleep and every write returns or raises, and nothing else
\* runs: the step the program stands at is eventually taken.
\* ------------------------------------------------------------------------
RunStep ==
    \/ CallFetch
    \/ AttemptSucceeds
    \/ AttemptFails
    \/ AttemptExhausts
    \/ WriteSucceeds
    \/ WriteFails

SpecOneRun == Init /\ [][RunStep]_vars /\ WF_vars(RunStep)

\* ------------------------------------------------------------------------
\* post_graphql alone, over every response of Responses
\* ------------------------------------------------------------------------
InitDecode ==
    /\ pc = "decode"
    /\ ip = 1
    /\ run = 1
    /\ files = [d \in Datasets |-> NoFile]
    /\ pre_files = [d \in Datasets |-> NoFile]
    /\ attempt = 0
    /\ last_error = NoError
    /\ response \in Responses
    /\ decoded = NoResult
    /\ payloads = [d \in Datasets |-> Null]
    /\ result = "running"
    /\ raised = NoAggregated
    /\ requests = [d \in Datasets |-> 0]
    /\ sleeps = [d \in Datasets |-> <<>>]
    /\ fails = [d \in Datasets |-> 0]
    /\ fstate = [d \in Datasets |-> "NotStarted"]
    /\ accepted = [d \in Datasets |-> NoResponse]
    /\ superseded = FALSE
    /\ vpayload = Null
    /\ verdict = NoResult
    /\ written = {}

Decode ==
    /\ pc = "decode"
    /\ decoded' = post_graphql(response)
    /\ pc' = "decoded"
    /\ UNCHANGED <<ip, attempt, last_error, response, payloads, files, result,
                   raised, run, requests, sleeps, fails, fstate, accepted,
                   written, pre_files, superseded,
                   vpayload, verdict>>

NextDecode == Decode

SpecDecode == InitDecode /\ [][NextDecode]_vars

TypeOK ==
    /\ pc \in {"call", "attempting", "write", "done", "decode", "decoded",
              "validate", "validated"}
    /\ ip \in 1..Len(MainBody)
    /\ attempt \in 0..MAX_ATTEMPTS_PER_DATASET
    /\ result \in {"running", "return0", "return1", "uncaught"}
    /\ run \in 1..MaxRuns
    /\ written \subseteq Datasets

\* ------------------------------------------------------------------------
\* A validator alone, over payloads with lists of up to MaxLen elements
\* ------------------------------------------------------------------------
ItemNoId == Dict(<< <<"shortName", Str("x")>> >>)
MapNoNameId == Dict(<< <<"hazards", List(<<>>)>> >>)
MapWithHazard ==
    Dict(<< <<"nameId", Str("m2")>>,
            <<"hazards", List(<< Dict(<< <<"name", Str("mines")>> >>) >>)>> >>)

ValidatorElems == Elems \cup {ItemNoId, MapNoNameId, MapWithHazard, Dict(<<>>)}

SeqsUpTo(S, n) == UNION {[1..k -> S] : k \in 0..n}

\* values found under data.items / data.maps
ValidatorArrayVals ==
    {Null, Str("x"), Dict(<<>>)}
    \cup {List(l) : l \in SeqsUpTo(ValidatorElems, MaxLen)}

\* values found under "data"
ValidatorDataVals ==
    {Null, Str("x"), List(<<>>), Dict(<<>>), BothData}
    \cup {Dict(<< <<k, a>> >>) : k \in {"items", "maps"}, a \in ValidatorArrayVals}

ValidatorPayloads ==
    {Dict(<<>>)} \cup {Dict(<< <<"data", d>> >>) : d \in ValidatorDataVals}

InitValidate ==
    /\ pc = "validate"
    /\ ip \in {1, 2}
    /\ run = 1
    /\ files = [d \in Datasets |-> NoFile]
    /\ pre_files = [d \in Datasets |-> NoFile]
    /\ FreshRun
    /\ vpayload \in ValidatorPayloads
    /\ verdict = NoResult

\* validator(payload), for the validator of the dataset of statement ip
Validate ==
    /\ pc = "validate"
    /\ verdict' = Validator(ds, vpayload)
    /\ pc' = "validated"
    /\ UNCHANGED <<ip, attempt, last_error, response, decoded, payloads, files,
                   result, raised, run, requests, sleeps, fails, fstate,
                   accepted, written, pre_files, superseded, vpayload>>

NextValidate == Validate

SpecValidate == InitValidate /\ [][NextValidate]_vars

\* ------------------------------------------------------------------------
\* Properties
\* ------------------------------------------------------------------------
\* a response that passes every check of the decoder and the validator of d
GoodResponse(resp, d) ==
    /\ resp.net = "ok"
    /\ resp.status_code = 200
    /\ resp.body.valid
    /\ IsDict(resp.body.doc)
    /\ ~(IsList(Get(resp.body.doc, "errors")) /\ Len(Get(resp.body.doc, "errors").v) > 0)
    /\ HasKey(resp.body.doc, "data")
    /\ IsDict(Get(resp.body.doc, "data"))
    /\ Validator(d, resp.body.doc).ok

RECURSIVE SumSeq(_)
SumSeq(q) == IF q = <<>> THEN 0 ELSE Head(q) + SumSeq(Tail(q))

\* C1: a dataset is attempted at most 3 times; when 3 attempts have failed the
\* fetch has ended Failed after exactly 3 requests, main has returned 1, and
\* the aggregated error names the dataset and the attempt count 3.
C1_AtMostThreeAttempts ==
    \A d \in Datasets :
        /\ requests[d] <= 3
        /\ fails[d] <= 3
        /\ fails[d] = 3 =>
              /\ fstate[d] = "Failed"
              /\ requests[d] = 3
              /\ pc = "done"
              /\ result = "return1"
              /\ raised.name = d
              /\ raised.attempts = 3

C1_Witness ==
    /\ fstate["hazards"] = "Failed"
    /\ fails["hazards"] = 3
    /\ raised.name = "hazards"
    /\ last_error.msg = "Hazards payload is missing expected map fields"

\* C2: when the response to the first request of a dataset is a well-formed
\* 200 response that satisfies the dataset's validator, that attempt ends the
\* fetch as Succeeded with the decoded root as payload, after one request and
\* no sleep; and a fetch that succeeded without a failure made exactly one
\* request and never slept.
C2_GoodFirstResponseSucceeds ==
    /\ [][(pc = "attempting" /\ attempt = 1 /\ GoodResponse(response', ds)) =>
            /\ fstate'[ds] = "Succeeded"
            /\ requests'[ds] = 1
            /\ sleeps'[ds] = <<>>
            /\ payloads'[ds] = response'.body.doc]_vars
    /\ [](\A d \in Datasets :
            (fstate[d] = "Succeeded" /\ fails[d] = 0) =>
                (requests[d] = 1 /\ sleeps[d] = <<>>))

C2_Witness ==
    /\ fstate["hazards"] = "Succeeded"
    /\ requests["hazards"] = 1
    /\ sleeps["hazards"] = <<>>
    /\ GoodResponse(response, "hazards")
    /\ HasKey(response.body.doc, "errors")

\* C3: after N failed attempts of a dataset the sleeps performed for it are
\* 1, ..., N when N < 3 and 1, 2 when N = 3, in that order; so a fetch that
\* succeeded after N failures slept 1 + ... + N in total, a success adds no
\* sleep, and a fetch that ended Failed slept exactly 1 then 2.
C3_LinearBackoff ==
    \A d \in Datasets :
        /\ Len(sleeps[d]) = (IF fails[d] < 3 THEN fails[d] ELSE 2)
        /\ \A i \in 1..Len(sleeps[d]) : sleeps[d][i] = i
        /\ fstate[d] = "Succeeded" =>
              /\ Len(sleeps[d]) = fails[d]
              /\ 2 * SumSeq(sleeps[d]) = fails[d] * (fails[d] + 1)
        /\ fstate[d] = "Failed" => sleeps[d] = <<1, 2>>

C3_Witness ==
    /\ fstate["items"] = "Succeeded"
    /\ fails["items"] = 2
    /\ sleeps["items"] = <<1, 2>>
    /\ fstate["hazards"] = "Failed"
    /\ sleeps["hazards"] = <<1, 2>>

\* C4: once the items fetch has ended Failed, no request has been and none
\* will be made for hazards in that run, and no file is written: the run
\* takes no further step.
C4_ItemsFailureSkipsHazards ==
    /\ [](fstate["items"] = "Failed" =>
            /\ requests["hazards"] = 0
            /\ fstate["hazards"] = "NotStarted"
            /\ written = {}
            /\ files = pre_files)
    /\ [][fstate["items"] = "Failed" => run' = run + 1]_vars

C4_Witness ==
    /\ fstate["items"] = "Failed"
    /\ requests["items"] = 3
    /\ pc = "done"
    /\ pre_files["items"].exists

\* C5: when the fetch of either dataset has ended Failed, no file has been
\* written in the run and both files hold what they held when the run
\* started, also when the items payload had already been obtained.
C5_FailureWritesNothing ==
    (\E d \in Datasets : fstate[d] = "Failed") =>
        /\ written = {}
        /\ files = pre_files

C5_Witness ==
    /\ fstate["items"] = "Succeeded"
    /\ fstate["hazards"] = "Failed"
    /\ pc = "done"
    /\ pre_files["items"].exists
    /\ pre_files["items"].text # FileText(payloads["items"])

\* C6 as stated: at the end of every run, write failures included, both
\* files were written by the run or neither was.
C6_NoPartialOutput ==
    pc = "done" => written \in {{}, Datasets}

\* C6 amended: a run that ends by a return of main wrote both files (return
\* 0) or neither (return 1, a fetch failure); a run ended by a failing write
\* wrote neither file or the items file alone.
C6_NoPartialOutputUnlessWriteFails ==
    pc = "done" =>
        /\ result = "return1" => written = {}
        /\ result = "return0" => written = Datasets
        /\ result = "uncaught" => written \in {{}, {"items"}}

C6_Witness ==
    /\ pc = "done"
    /\ result = "return0"
    /\ written = Datasets
    /\ run = 2
    /\ pre_files["hazards"].exists

\* C7: a file written in this run holds the serialization of the whole root
\* of the response of the successful attempt of its own dataset, a response
\* that passes every decoder check and that dataset's validator.
C7_OnlyValidatedPayloadPersisted ==
    \A d \in written :
        /\ fstate[d] = "Succeeded"
        /\ GoodResponse(accepted[d], d)
        /\ payloads[d] = accepted[d].body.doc
        /\ files[d] = [exists |-> TRUE, text |-> FileText(accepted[d].body.doc)]

C7_Witness ==
    /\ written = Datasets
    /\ fails["items"] > 0
    /\ fails["hazards"] > 0
    /\ accepted["items"] # accepted["hazards"]
    /\ GoodResponse(accepted["hazards"], "items")

\* a response whose body has a non-empty list under the top-level "errors"
NonEmptyErrors(resp) ==
    /\ resp.net = "ok"
    /\ resp.body.valid
    /\ IsDict(resp.body.doc)
    /\ IsList(Get(resp.body.doc, "errors"))
    /\ Len(Get(resp.body.doc, "errors").v) > 0

FetchErrorMessages ==
    {"Network timeout/error", "HTTP", "Invalid JSON response",
     "Response root is not a JSON object", "GraphQL returned errors",
     "GraphQL response missing valid 'data' object"}

\* C8: post_graphql raises a FetchError, and returns no payload, for every
\* response with a non-empty list under "errors", whatever its status and
\* whether or not it has a mapping under "data".
C8_ErrorsListAlwaysFails ==
    (pc = "decoded" /\ NonEmptyErrors(response)) =>
        /\ ~decoded.ok
        /\ decoded.val.msg \in FetchErrorMessages

C8_Witness ==
    /\ pc = "decoded"
    /\ NonEmptyErrors(response)
    /\ response.status_code = 200
    /\ IsDict(Get(response.body.doc, "data"))
    /\ Validator("items", response.body.doc).ok
    /\ ~decoded.ok
    /\ decoded.val.msg = "GraphQL returned errors"

\* the five decoder rules, each stated on its own
ViolatesRule(resp, k) ==
    CASE k = 1 -> resp.status_code # 200
      [] k = 2 -> ~resp.body.valid
      [] k = 3 -> resp.body.valid /\ ~IsDict(resp.body.doc)
      [] k = 4 -> NonEmptyErrors(resp)
      [] k = 5 -> /\ resp.body.valid
                  /\ IsDict(resp.body.doc)
                  /\ \/ ~HasKey(resp.body.doc, "data")
                     \/ ~IsDict(Get(resp.body.doc, "data"))

ViolatedRules(resp) == {k \in 1..5 : ViolatesRule(resp, k)}

FirstViolatedRule(resp) ==
    CHOOSE k \in ViolatedRules(resp) : \A j \in ViolatedRules(resp) : k <= j

RuleMessage(k) ==
    CASE k = 1 -> "HTTP"
      [] k = 2 -> "Invalid JSON response"
      [] k = 3 -> "Response root is not a JSON object"
      [] k = 4 -> "GraphQL returned errors"
      [] k = 5 -> "GraphQL response missing valid 'data' object"

\* C9: for a response that arrived, post_graphql returns if and only if none
\* of the five rules is violated, and then returns the whole decoded root;
\* otherwise it raises the failure of the first violated rule in the order
\* status, parse, root, errors, data.
C9_DecoderRuleOrder ==
    (pc = "decoded" /\ response.net = "ok") =>
        IF ViolatedRules(response) = {}
        THEN decoded.ok /\ decoded.val = response.body.doc
        ELSE /\ ~decoded.ok
             /\ decoded.val.msg = RuleMessage(FirstViolatedRule(response))
             /\ FirstViolatedRule(response) = 1 =>
                    decoded.val.status = response.status_code

C9_Witness ==
    /\ pc = "decoded"
    /\ response.net = "ok"
    /\ ViolatedRules(response) = {4, 5}
    /\ decoded.val.msg = "GraphQL returned errors"

\* C10: whatever the causes of the failures, the requests, the sleeps and
\* the terminal state of a fetch are those its number of failed attempts
\* gives; and an attempt n < 3 whose response is not accepted, for any
\* reason, is followed by attempt n + 1 of the same dataset.
C10_UniformRetry ==
    /\ [](\A d \in Datasets :
            /\ requests[d] = fails[d] + (IF fstate[d] = "Succeeded" THEN 1 ELSE 0)
            /\ sleeps[d] = [i \in 1..(IF fails[d] < 3 THEN fails[d] ELSE 2) |-> i]
            /\ fstate[d] = "Failed" <=> fails[d] = 3)
    /\ [][(pc = "attempting" /\ attempt < 3 /\ ~GoodResponse(response', ds)) =>
            /\ pc' = "attempting"
            /\ ip' = ip
            /\ attempt' = attempt + 1
            /\ fails'[ds] = fails[ds] + 1
            /\ result' = "running"]_vars

C10_Witness ==
    /\ pc = "attempting"
    /\ attempt = 3
    /\ fails[ds] = 2
    /\ last_error = HttpError(404)
    /\ response.status_code = 404

\* the keys of a dict
Keys(d) == {d.v[i][1] : i \in 1..Len(d.v)}

\* the values of a dict under the key k
ValuesAt(d, k) == {d.v[i][2] : i \in {j \in 1..Len(d.v) : d.v[j][1] = k}}

\* p.data is a mapping whose list under key is non-empty and starts with a
\* mapping that has the two fields
FirstElementShape(p, key, field1, field2) ==
    \E data \in ValuesAt(p, "data") :
        /\ data.t = "dict"
        /\ \E arr \in ValuesAt(data, key) :
              /\ arr.t = "list"
              /\ Len(arr.v) >= 1
              /\ arr.v[1].t = "dict"
              /\ {field1, field2} \subseteq Keys(arr.v[1])

ItemsMessages ==
    {"Items payload has invalid 'data' section",
     "Items payload is missing a non-empty data.items array",
     "Items payload is missing expected item fields"}

HazardsMessages ==
    {"Hazards payload has invalid 'data' section",
     "Hazards payload is missing a non-empty data.maps array",
     "Hazards payload is missing expected map fields"}

\* C11: validate_items_payload returns if and only if data is a mapping,
\* data.items a non-empty list and its first element a mapping with the keys
\* id and shortName, whatever the later elements; otherwise it raises one of
\* its three errors.  {"data":{"items":[{"id":"1","shortName":"x"}]}} is
\* accepted and {"data":{"items":[]}} is rejected for its empty array.
C11_ItemsValidatorShape ==
    (pc = "validated" /\ ds = "items") =>
        /\ verdict.ok <=> FirstElementShape(vpayload, "items", "id", "shortName")
        /\ ~verdict.ok => verdict.val.msg \in ItemsMessages
        /\ vpayload = Dict(<< <<"data", Dict(<< <<"items", List(<<ItemGood>>)>> >>)>> >>)
              => verdict.ok
        /\ vpayload = Dict(<< <<"data", Dict(<< <<"items", List(<<>>)>> >>)>> >>)
              => /\ ~verdict.ok
                 /\ verdict.val.msg = "Items payload is missing a non-empty data.items array"

C11_Witness ==
    /\ pc = "validated"
    /\ ds = "items"
    /\ verdict.ok
    /\ vpayload = Dict(<< <<"data", Dict(<< <<"items", List(<<ItemGood, Str("x")>>)>> >>)>> >>)

\* C12: validate_hazards_payload returns if and only if data is a mapping,
\* data.maps a non-empty list and its first element a mapping with the keys
\* nameId and hazards, whatever is under hazards and whatever the later
\* elements; {"data":{"maps":[{"nameId":"m1","hazards":[]}]}} is accepted.
C12_HazardsValidatorShape ==
    (pc = "validated" /\ ds = "hazards") =>
        /\ verdict.ok <=> FirstElementShape(vpayload, "maps", "nameId", "hazards")
        /\ ~verdict.ok => verdict.val.msg \in HazardsMessages
        /\ vpayload = Dict(<< <<"data", Dict(<< <<"maps", List(<<MapGood>>)>> >>)>> >>)
              => verdict.ok

C12_Witness ==
    /\ pc = "validated"
    /\ ds = "hazards"
    /\ verdict.ok
    /\ vpayload = Dict(<< <<"data", Dict(<< <<"maps", List(<<MapGood, MapNoNameId>>)>> >>)>> >>)
    /\ Get(MapGood, "hazards") = List(<<>>)

\* C13: whenever a request, a sleep or a call has been made for hazards, the
\* items fetch has ended Succeeded; and once the hazards fetch has started,
\* the run makes no further request and no further sleep for items.
C13_ItemsThenHazards ==
    /\ []((\/ requests["hazards"] > 0
           \/ sleeps["hazards"] # <<>>
           \/ fstate["hazards"] # "NotStarted") => fstate["items"] = "Succeeded")
    /\ [][(run' = run /\ fstate["hazards"] # "NotStarted") =>
            /\ requests'["items"] = requests["items"]
            /\ sleeps'["items"] = sleeps["items"]
            /\ fstate'["items"] = fstate["items"]]_vars

C13_Witness ==
    /\ pc = "attempting"
    /\ ds = "hazards"
    /\ requests["hazards"] = 2
    /\ sleeps["hazards"] = <<1, 2>>
    /\ requests["items"] = 2

\* C14: a finished run has exit status 0 exactly when both fetches ended
\* Succeeded and both files were written; when a fetch ended Failed main
\* returned 1 and the exit status is 1.
C14_ExitStatus ==
    pc = "done" =>
        /\ ExitStatus(result) = 0 <=>
              /\ \A d \in Datasets : fstate[d] = "Succeeded"
              /\ written = Datasets
        /\ (\E d \in Datasets : fstate[d] = "Failed") =>
              /\ result = "return1"
              /\ ExitStatus(result) = 1

C14_Witness ==
    /\ pc = "done"
    /\ ExitStatus(result) = 1
    /\ result = "return1"
    /\ fstate["items"] = "Succeeded"
    /\ fstate["hazards"] = "Failed"
    /\ run = 1

\* json.dumps({"data": {"items": [{"id": "1", "shortName": "x"}]}}, indent=2)
\* followed by a newline, token by token
ItemsExampleText ==
    <<"{", "\n", "  ", "\"", "data", "\"", ": ", "{",
      "\n", "  ", "  ", "\"", "items", "\"", ": ", "[",
      "\n", "  ", "  ", "  ", "{",
      "\n", "  ", "  ", "  ", "  ", "\"", "id", "\"", ": ", "\"", "1", "\"", ",",
      "\n", "  ", "  ", "  ", "  ", "\"", "shortName", "\"", ": ", "\"", "x", "\"",
      "\n", "  ", "  ", "  ", "}",
      "\n", "  ", "  ", "]",
      "\n", "  ", "}",
      "\n", "}",
      "\n">>

\* C15: after a run that returned 0 each file holds the serialization of the
\* root of the response its dataset's fetch accepted in this run, followed by
\* one newline, whatever the file held before; so a run that accepts the
\* payloads the files already hold leaves the files as they were.
C15_SuccessfulRunOverwrites ==
    (pc = "done" /\ result = "return0") =>
        /\ \A d \in Datasets :
              /\ files[d].exists
              /\ files[d].text = dumps(accepted[d].body.doc, 0) \o <<"\n">>
              /\ files[d].text[Len(files[d].text)] = "\n"
              /\ files[d].text[Len(files[d].text) - 1] # "\n"
        /\ accepted["items"].body.doc
             = Dict(<< <<"data", Dict(<< <<"items", List(<<ItemGood>>)>> >>)>> >>)
              => files["items"].text = ItemsExampleText
        /\ (\A d \in Datasets :
              pre_files[d] = [exists |-> TRUE,
                              text |-> dumps(accepted[d].body.doc, 0) \o <<"\n">>])
              => files = pre_files

C15_Witness ==
    /\ pc = "done"
    /\ result = "return0"
    /\ run = 2
    /\ \A d \in Datasets :
          /\ pre_files[d].exists
          /\ Len(pre_files[d].text) > 1
          /\ pre_files[d].text[Len(pre_files[d].text)] = "\n"
          /\ pre_files[d].text # files[d].text
    /\ files["items"].text = ItemsExampleText

\* C16: every call of fetch_dataset starts at attempt 1 with last_error
\* unset; during a fetch the attempt number is one more than the failures of
\* that dataset alone, and last_error is unset before its first failure and
\* the error of its own latest response after; so a hazards fetch that ends
\* Failed made 3 requests of its own and reports an error of its own.
C16_FreshStatePerFetch ==
    /\ [][pc = "call" => (attempt' = 1 /\ last_error' = NoError)]_vars
    /\ [](pc = "attempting" =>
            /\ attempt = fails[ds] + 1
            /\ fails[ds] = 0 => last_error = NoError
            /\ fails[ds] > 0 => last_error = TryAttempt(ds, response).val)
    /\ [](fstate["hazards"] = "Failed" =>
            /\ fails["hazards"] = 3
            /\ requests["hazards"] = 3
            /\ raised.name = "hazards"
            /\ raised.last = TryAttempt("hazards", response).val)

C16_Witness ==
    /\ pc = "attempting"
    /\ ds = "hazards"
    /\ attempt = 1
    /\ last_error = NoError
    /\ fails["items"] = 2
    /\ fails["hazards"] = 0

\* C17: every failed attempt sets last_error to its own error, and the
\* aggregated error of a fetch that ends Failed carries the error of the
\* third attempt, whatever the errors of the first two.
C17_LastErrorReported ==
    /\ [][(pc = "attempting" /\ fails'[ds] > fails[ds]) =>
            last_error' = TryAttempt(ds, response').val]_vars
    /\ [][(pc = "attempting" /\ fstate'[ds] = "Failed") =>
            /\ attempt = 3
            /\ raised'.last = TryAttempt(ds, response').val]_vars
    /\ [](\A d \in Datasets : fstate[d] = "Failed" =>
            raised = [msg |-> "failed after attempts", name |-> d,
                      attempts |-> 3, last |-> TryAttempt(d, response).val])

C17_Witness ==
    /\ fstate["items"] = "Failed"
    /\ superseded
    /\ raised.last = HttpError(500)
    /\ raised.last = TryAttempt("items", response).val

\* C18: within a run a fetch that ended Succeeded or Failed stays so, with
\* no further request, sleep or failure for its dataset; the attempt number
\* of a fetch is 1, 2 or 3, equals the requests already made plus one, and
\* only grows by one from an attempt to the next.
C18_TerminalStates ==
    /\ [][run' = run =>
            \A d \in Datasets : fstate[d] \in {"Succeeded", "Failed"} =>
                /\ fstate'[d] = fstate[d]
                /\ requests'[d] = requests[d]
                /\ sleeps'[d] = sleeps[d]
                /\ fails'[d] = fails[d]]_vars
    /\ [](pc = "attempting" =>
            /\ attempt \in {1, 2, 3}
            /\ requests[ds] = attempt - 1)
    /\ [][(pc = "attempting" /\ pc' = "attempting" /\ ip' = ip) =>
            attempt' = attempt + 1]_vars

C18_Witness ==
    /\ fstate["items"] = "Succeeded"
    /\ requests["items"] = 2
    /\ pc = "attempting"
    /\ ds = "hazards"
    /\ attempt = 3

C20_WritesAfterFetchesInOrder ==
    /\ [][(run' = run /\ (files' # files \/ written' # written)) =>
            /\ pc = "write"
            /\ \A d \in Datasets : fstate[d] = "Succeeded"]_vars
    /\ []((written # {} \/ files # pre_files) =>
            \A d \in Datasets : fstate[d] = "Succeeded")
    /\ []("hazards" \in written => "items" \in written)
    /\ [](files["hazards"] # pre_files["hazards"] => "items" \in written)
    /\ []((pc = "done" /\ result = "uncaught" /\ "items" \notin written) =>
            files["hazards"] = pre_files["hazards"])

C20_Witness ==
    /\ pc = "write"
    /\ ds = "hazards"
    /\ written = {"items"}
    /\ files["items"] # pre_files["items"]
    /\ files["hazards"] = pre_files["hazards"]
    /\ pre_files["hazards"].exists

====
